---- MODULE Spec2Model ----
(***************************************************************************)
(* Model of irc-state-rs: the client-side IRC state mirror (src/lib.rs)   *)
(* and its identifier normalizer (src/irc_identifier.rs).                 *)
(*                                                                         *)
(* Strings are sequences of one-character strings, so that normalization  *)
(* (prefix stripping and case folding) is computed, not assumed.          *)
(* Handlers are operators from a State record to a State record; the      *)
(* field `panicked` is TRUE when the handler ended in a Rust panic, and   *)
(* the other fields then hold the State at the point of the panic.        *)
(*                                                                         *)
(* Spec and SpecStrict are sessions of events on one State (release and   *)
(* cfg(test) build), SpecFrozen is a session whose owner also takes       *)
(* snapshots, SpecNormalize applies the normalizer to raw names.          *)
(***************************************************************************)
EXTENDS Integers, Sequences, FiniteSets, TLC

\* ------------------------------------------------------------------------
\* State
\* ------------------------------------------------------------------------
VARIABLES
    strict,        \* TRUE: cfg(test) build, validate_state_internal_panic checks
    user_seq,
    channel_seq,
    self_nick,
    self_id,
    user_map,      \* IrcIdentifier -> UserId
    users,         \* UserId -> [id, nick, channels]
    channel_map,   \* IrcIdentifier -> ChannelId
    channels,      \* ChannelId -> [id, name, topic, users]
    generation,
    panicked,      \* the last operation ended in a panic (hard failure)
    last,          \* the last event that changed the State or ended in a panic
    issued_users,  \* history: every UserId that was ever in the user table
    issued_chans,  \* history: every ChannelId that was ever in the channel table
    events,        \* number of operations applied so far
    frozen,        \* the FrozenState snapshots handed out, oldest first
    raw,           \* a raw name handed to IrcIdentifier::from_str
    respelled,     \* the same name in another spelling the protocol takes for equal
    ident          \* the identifiers from_str returned so far

\* the State and its history
state_vars == << strict, user_seq, channel_seq, self_nick, self_id, user_map,
                 users, channel_map, channels, generation, panicked, last,
                 issued_users, issued_chans, events, frozen >>

\* the names under normalization
name_vars == << raw, respelled, ident >>

vars == << state_vars, name_vars >>

\* ------------------------------------------------------------------------
\* Entities and events
\* ------------------------------------------------------------------------
\* struct User; the nick stands for the prefix (nick!user@host)
User(id, nick, joined) == [channels |-> joined, id |-> id, nick |-> nick]

\* struct Channel
Channel(id, name, topic, members) ==
    [users |-> members, id |-> id, name |-> name, topic |-> topic]

\* An event is a record [prefix, kind, chan, arg]:
\*   prefix  the nick of the message prefix (NoNick: the prefix has none)
\*   chan    the channel argument (NoChan: none)
\*   arg     the new nick (Nick), the kicked nick (Kick), the topic (Topic,
\*           JoinOk), the welcomed nick (Welcome), the reported nicks (WhoOk)
Event(kind, prefix, chan, arg) ==
    [kind |-> kind, prefix |-> prefix, chan |-> chan, arg |-> arg]

NoNick == <<>>
NoChan == <<>>
NoArg  == <<>>

\* ------------------------------------------------------------------------
\* Bounds of the model
\* ------------------------------------------------------------------------
\* user_seq is never advanced beyond this value
MaxUserSeq == 3
\* channel_seq is never advanced beyond this value
MaxChanSeq == 2
\* longest list of records in a roster (WHO) bundle
MaxWhoLen == 2
\* longest session: number of operations applied to one State
MaxEvents == 4

\* at most this many snapshots are taken in a session
MaxFrozen == 2
\* longest raw name handed to the normalizer
MaxNameLen == 3

\* the characters of raw names: the channel sigil, a status prefix, a letter
\* in both cases, and a character of the customary folding
RawChars == { "#", "+", "a", "A", "{" }
RawNames == UNION { [1..n -> RawChars] : n \in 0..MaxNameLen }

\* raw nick spellings delivered by the parser
Nicks == { <<"a">>, <<"A">>, <<"b">> }
\* raw channel spellings delivered by the parser
Chans == { <<"#", "x">>, <<"+", "#", "X">>, <<"#", "y">> }
\* topic texts
Topics == { "", "t" }

\* ------------------------------------------------------------------------
\* Identifier normalizer (src/irc_identifier.rs)
\* ------------------------------------------------------------------------
\* irccase::to_irc_lower on one character: ASCII upper case to lower case,
\* and the bracket characters {}|^ to []\~
ToIrcLowerChar(c) ==
    CASE c = "A" -> "a"
      [] c = "B" -> "b"
      [] c = "X" -> "x"
      [] c = "Y" -> "y"
      [] c = "{" -> "["
      [] c = "}" -> "]"
      [] c = "|" -> "\\"
      [] c = "^" -> "~"
      [] OTHER -> c

ToIrcLower(str) == [i \in 1..Len(str) |-> ToIrcLowerChar(str[i])]

\* channel_deprefix that drops the '#' it found as well
channel_deprefix_after_sigil(target) ==
    IF \E i \in 1..Len(target) : target[i] = "#"
    THEN LET idx == CHOOSE i \in 1..Len(target) :
                        /\ target[i] = "#"
                        /\ \A j \in 1..(i-1) : target[j] # "#"
         IN  SubSeq(target, idx + 1, Len(target))
    ELSE target

\* target.find('#'): the suffix starting at the first '#', or the whole string
channel_deprefix(target) ==
    IF \E i \in 1..Len(target) : target[i] = "#"
    THEN LET idx == CHOOSE i \in 1..Len(target) :
                        /\ target[i] = "#"
                        /\ \A j \in 1..(i-1) : target[j] # "#"
         IN  SubSeq(target, idx, Len(target))
    ELSE target

\* IrcIdentifier::from_str
IrcIdentifier(val) == ToIrcLower(channel_deprefix(val))

\* ------------------------------------------------------------------------
\* HashMap helpers
\* ------------------------------------------------------------------------
EmptyMap == [k \in {} |-> 0]
MapInsert(m, k, v) == [x \in (DOMAIN m) \cup {k} |-> IF x = k THEN v ELSE m[x]]
MapRemove(m, k) == [x \in (DOMAIN m) \ {k} |-> m[x]]

\* ------------------------------------------------------------------------
\* The State aggregate
\* ------------------------------------------------------------------------
\* the State aggregate as one value
Cur == [ strict |-> strict, user_seq |-> user_seq, channel_seq |-> channel_seq,
         self_nick |-> self_nick, self_id |-> self_id,
         user_map |-> user_map, users |-> users,
         channel_map |-> channel_map, channels |-> channels,
         generation |-> generation, panicked |-> FALSE ]

\* State::new
New(isStrict) ==
    [ strict |-> isStrict, user_seq |-> 1, channel_seq |-> 0,
      self_nick |-> <<>>, self_id |-> 0,
      user_map |-> EmptyMap, users |-> EmptyMap,
      channel_map |-> EmptyMap, channels |-> EmptyMap,
      generation |-> 0, panicked |-> FALSE ]

\* a panic: the State stays as it was at the point of failure
Panic(s) == [s EXCEPT !.panicked = TRUE]

\* impl PartialEq for State (the build flag is not part of the State)
StateEq(s, t) ==
    /\ s.user_map = t.user_map
    /\ s.channel_map = t.channel_map
    /\ s.users = t.users
    /\ s.channels = t.channels
    /\ s.user_seq = t.user_seq
    /\ s.channel_seq = t.channel_seq
    /\ s.self_nick = t.self_nick
    /\ s.generation = t.generation

\* ------------------------------------------------------------------------
\* Consistency validator
\* ------------------------------------------------------------------------
\* validate_state_internal: TRUE iff it returns Ok(())
validate_state_internal(s) ==
    /\ \A id \in DOMAIN s.channels :
          /\ s.channels[id].id = id
          /\ \A user_id \in s.channels[id].users :
                /\ user_id \in DOMAIN s.users
                /\ id \in s.users[user_id].channels
    /\ \A id \in DOMAIN s.users :
          /\ s.users[id].id = id
          /\ \A chan_id \in s.users[id].channels :
                /\ chan_id \in DOMAIN s.channels
                /\ id \in s.channels[chan_id].users
    /\ \A name \in DOMAIN s.channel_map :
          /\ s.channel_map[name] \in DOMAIN s.channels
          /\ name = IrcIdentifier(s.channels[s.channel_map[name]].name)
    /\ \A name \in DOMAIN s.user_map :
          /\ s.user_map[name] \in DOMAIN s.users
          /\ name = IrcIdentifier(s.users[s.user_map[name]].nick)

\* validate_state_internal_panic: empty unless cfg(test)
validate_state_internal_panic(s) ==
    IF s.panicked THEN s
    ELSE IF s.strict /\ ~validate_state_internal(s) THEN Panic(s) ELSE s

\* ------------------------------------------------------------------------
\* Entity store
\* ------------------------------------------------------------------------
\* Operators that return a value besides the State return [s, ret].

\* The closures handed to update_channel and update_user, as values:
\*   <<"set_topic", t>>   |channel| channel.set_topic(t)       (on_topic)
\*   <<"add_users", ids>> |channel| channel.users.insert/extend (on_other_join, on_who)
\*   <<"set_nick", n>>    |user| user.set_nick(n)               (on_nick)
channel_modfunc(modfunc, channel) ==
    CASE modfunc[1] = "set_topic" -> [channel EXCEPT !.topic = modfunc[2]]
      [] modfunc[1] = "add_users" -> [channel EXCEPT !.users = @ \cup modfunc[2]]

user_modfunc(modfunc, user) ==
    CASE modfunc[1] = "set_nick" -> [user EXCEPT !.nick = modfunc[2]]

\* update_channel: apply modfunc to channels[id]; FALSE if vacant
update_channel(s, id, modfunc) ==
    IF id \in DOMAIN s.channels
    THEN [s |-> [s EXCEPT !.channels[id] = channel_modfunc(modfunc, s.channels[id])],
          ret |-> TRUE]
    ELSE [s |-> s, ret |-> FALSE]

\* update_channel_by_name
update_channel_by_name(s, name, modfunc) ==
    LET ch_name == IrcIdentifier(name) IN
    IF ch_name \in DOMAIN s.channel_map
    THEN LET r == update_channel(s, s.channel_map[ch_name], modfunc)
         IN  [s |-> validate_state_internal_panic(r.s), ret |-> r.ret]
    ELSE [s |-> s, ret |-> FALSE]

\* remove_channel_by_id that leaves the members' channel sets alone
remove_channel_by_id_keep_member_sets(s, id) ==
    IF id \notin DOMAIN s.channels THEN [s |-> s, ret |-> FALSE]
    ELSE
      LET chan_name == IrcIdentifier(s.channels[id].name) IN
      [s |-> validate_state_internal_panic(
               [s EXCEPT !.channels = MapRemove(s.channels, id),
                         !.channel_map = MapRemove(s.channel_map, chan_name)]),
       ret |-> TRUE]

\* remove_channel_by_id: detach every member, delete the entity and its
\* index entry.  Member users are not deleted, whatever is left of their
\* channel sets.  (users.get_mut(..).unwrap() panics on a member id that has
\* no entity; the members that have one are then already detached.)
remove_channel_by_id(s, id) ==
    IF id \notin DOMAIN s.channels THEN [s |-> s, ret |-> FALSE]
    ELSE
      LET chan_name == IrcIdentifier(s.channels[id].name)
          members   == s.channels[id].users
          known     == members \cap DOMAIN s.users
          detached  == [s EXCEPT
                          !.channels[id].users = members \ known,
                          !.users = [u \in DOMAIN s.users |->
                                       IF u \in known
                                       THEN [s.users[u] EXCEPT !.channels = @ \ {id}]
                                       ELSE s.users[u]]]
      IN  IF known # members THEN [s |-> Panic(detached), ret |-> FALSE]
          ELSE [s |-> validate_state_internal_panic(
                        [detached EXCEPT
                           !.channels = MapRemove(detached.channels, id),
                           !.channel_map = MapRemove(detached.channel_map, chan_name)]),
                ret |-> TRUE]

\* remove_channel_by_name: ret is is_some() of the returned Option
remove_channel_by_name(s, name) ==
    LET ch_name == IrcIdentifier(name) IN
    IF ch_name \in DOMAIN s.channel_map
    THEN LET r == remove_channel_by_id(s, s.channel_map[ch_name]) IN
         IF r.s.panicked THEN r
         ELSE IF ~r.ret THEN [s |-> Panic(r.s), ret |-> FALSE]
         ELSE [s |-> validate_state_internal_panic(r.s), ret |-> TRUE]
    ELSE [s |-> s, ret |-> FALSE]

\* get_channel_by_name panics when the index names a channel without entity
get_channel_by_name_panics(s, name) ==
    LET ch_name == IrcIdentifier(name) IN
    /\ ch_name \in DOMAIN s.channel_map
    /\ s.channel_map[ch_name] \notin DOMAIN s.channels

\* insert_user: HashMap::insert overwrites before the assert! looks at the
\* previous value
insert_user(s, user) ==
    LET nick == IrcIdentifier(user.nick)
        s1   == [s EXCEPT !.users = MapInsert(s.users, user.id, user)]
        s2   == [s1 EXCEPT !.user_map = MapInsert(s1.user_map, nick, user.id)]
    IN  IF user.id \in DOMAIN s.users THEN Panic(s1)
        ELSE IF nick \in DOMAIN s.user_map THEN Panic(s2)
        ELSE validate_state_internal_panic(s2)

\* update_user that inserts the new index entry and keeps the old one
update_user_keep_old_key(s, id, modfunc) ==
    IF id \in DOMAIN s.users
    THEN LET prev_nick == IrcIdentifier(s.users[id].nick)
             changed   == user_modfunc(modfunc, s.users[id])
             new_nick  == IrcIdentifier(changed.nick)
             s1        == [s EXCEPT !.users[id] = changed]
         IN  [s |-> IF prev_nick # new_nick
                    THEN [s1 EXCEPT !.user_map = MapInsert(s1.user_map, new_nick, id)]
                    ELSE s1,
              ret |-> TRUE]
    ELSE [s |-> s, ret |-> FALSE]

\* update_user: apply modfunc; when the normalized nick changed, drop the old
\* index entry and insert the new one (overwriting whatever was there)
update_user(s, id, modfunc) ==
    IF id \in DOMAIN s.users
    THEN LET prev_nick == IrcIdentifier(s.users[id].nick)
             changed   == user_modfunc(modfunc, s.users[id])
             new_nick  == IrcIdentifier(changed.nick)
             s1        == [s EXCEPT !.users[id] = changed]
         IN  [s |-> IF prev_nick # new_nick
                    THEN [s1 EXCEPT !.user_map =
                            MapInsert(MapRemove(s1.user_map, prev_nick), new_nick, id)]
                    ELSE s1,
              ret |-> TRUE]
    ELSE [s |-> s, ret |-> FALSE]

\* update_user_by_nick
update_user_by_nick(s, nick, modfunc) ==
    LET n == IrcIdentifier(nick) IN
    IF n \in DOMAIN s.user_map
    THEN LET r == update_user(s, s.user_map[n], modfunc)
         IN  [s |-> validate_state_internal_panic(r.s), ret |-> r.ret]
    ELSE [s |-> s, ret |-> FALSE]

\* remove_user_by_id without its guard for the self-user
remove_user_by_id_unguarded(s, id) ==
    IF id \notin DOMAIN s.users THEN [s |-> s, ret |-> FALSE]
    ELSE
      LET nick     == IrcIdentifier(s.users[id].nick)
          known    == s.users[id].channels \cap DOMAIN s.channels
          detached == [s EXCEPT
                         !.channels = [c \in DOMAIN s.channels |->
                                         IF c \in known
                                         THEN [s.channels[c] EXCEPT !.users = @ \ {id}]
                                         ELSE s.channels[c]]]
      IN  [s |-> [detached EXCEPT !.users = MapRemove(detached.users, id),
                                  !.user_map = MapRemove(detached.user_map, nick)],
           ret |-> TRUE]

\* remove_user_by_id: panics for the self-user; otherwise detaches every
\* channel, deletes the entity and its index entry.  Channels are not
\* deleted, whatever is left of their member sets.
remove_user_by_id(s, id) ==
    IF s.self_id = id THEN [s |-> Panic(s), ret |-> FALSE]
    ELSE IF id \notin DOMAIN s.users THEN [s |-> s, ret |-> FALSE]
    ELSE
      LET nick     == IrcIdentifier(s.users[id].nick)
          joined   == s.users[id].channels
          known    == joined \cap DOMAIN s.channels
          detached == [s EXCEPT
                         !.users[id].channels = joined \ known,
                         !.channels = [c \in DOMAIN s.channels |->
                                         IF c \in known
                                         THEN [s.channels[c] EXCEPT !.users = @ \ {id}]
                                         ELSE s.channels[c]]]
          gone     == [detached EXCEPT !.users = MapRemove(detached.users, id)]
      IN  IF known # joined THEN [s |-> Panic(detached), ret |-> FALSE]
          ELSE IF nick \notin DOMAIN gone.user_map
               THEN [s |-> Panic(gone), ret |-> FALSE]
          ELSE [s |-> validate_state_internal_panic(
                        [gone EXCEPT !.user_map = MapRemove(gone.user_map, nick)]),
                ret |-> TRUE]

\* remove_user_by_nick: ret is is_some() of the returned Option
remove_user_by_nick(s, name) ==
    LET n == IrcIdentifier(name) IN
    IF n \notin DOMAIN s.user_map THEN [s |-> s, ret |-> FALSE]
    ELSE LET r == remove_user_by_id(s, s.user_map[n]) IN
         IF r.s.panicked THEN r
         ELSE IF r.ret THEN r
         ELSE [s |-> Panic(r.s), ret |-> FALSE]

\* first half of unlink_user_channel: the user side
unlink_user_side(s, uid, chid) ==
    IF uid \notin DOMAIN s.users THEN Panic(s)
    ELSE IF Cardinality(s.users[uid].channels) = 1 /\ chid \in s.users[uid].channels
         THEN remove_user_by_id(s, uid).s
         ELSE [s EXCEPT !.users[uid].channels = @ \ {chid}]

\* second half of unlink_user_channel: the channel side
unlink_channel_side(s, uid, chid) ==
    IF chid \notin DOMAIN s.channels THEN Panic(s)
    ELSE IF Cardinality(s.channels[chid].users) = 1 /\ uid \in s.channels[chid].users
         THEN remove_channel_by_id(s, chid).s
         ELSE [s EXCEPT !.channels[chid].users = @ \ {uid}]

\* unlink_user_channel
unlink_user_channel(s, uid, chid) ==
    LET s1 == unlink_user_side(s, uid, chid) IN
    IF s1.panicked THEN s1 ELSE unlink_channel_side(s1, uid, chid)

\* ------------------------------------------------------------------------
\* Event state machine
\* ------------------------------------------------------------------------

\* on_other_part
on_other_part(s, part) ==
    LET channel_name == IrcIdentifier(part.chan)
        user_nick    == IrcIdentifier(part.prefix)
    IN  IF channel_name \in DOMAIN s.channel_map /\ user_nick \in DOMAIN s.user_map
        THEN LET s1 == validate_state_internal_panic(s)
                 s2 == IF s1.panicked THEN s1
                       ELSE unlink_user_channel(s1, s1.user_map[user_nick],
                                                s1.channel_map[channel_name])
             IN  validate_state_internal_panic(s2)
        ELSE s

\* on_self_part
on_self_part(s, part) ==
    LET r == remove_channel_by_name(s, part.chan) IN
    IF r.s.panicked \/ r.ret THEN r.s ELSE Panic(r.s)

\* on_other_quit
on_other_quit(s, quit) ==
    LET r == remove_user_by_nick(s, quit.prefix) IN
    IF r.s.panicked \/ r.ret THEN r.s ELSE Panic(r.s)

\* on_other_join creating a User for every join, known nick or not
on_other_join_always_create(s, join) ==
    LET channel_name == IrcIdentifier(join.chan)
        user_nick    == IrcIdentifier(join.prefix)
    IN  IF channel_name \notin DOMAIN s.channel_map THEN Panic(s)
        ELSE
          LET chan_id == s.channel_map[channel_name]
              user_id == s.user_seq
              s1 == [s EXCEPT
                       !.user_seq = @ + 1,
                       !.users = MapInsert(s.users, user_id,
                                   User(user_id, join.prefix, {chan_id})),
                       !.user_map = MapInsert(s.user_map, user_nick, user_id)]
          IN  update_channel_by_name(s1, channel_name, <<"add_users", {user_id}>>).s

\* on_other_join that opens a channel it does not know
on_other_join_creating_channel(s, join) ==
    LET channel_name == IrcIdentifier(join.chan)
        user_nick    == IrcIdentifier(join.prefix)
        new_chan_id  == s.channel_seq
        s0 == IF channel_name \in DOMAIN s.channel_map THEN s
              ELSE [s EXCEPT
                      !.channel_seq = @ + 1,
                      !.channels = MapInsert(s.channels, new_chan_id,
                                     Channel(new_chan_id, join.chan, "", {})),
                      !.channel_map = MapInsert(s.channel_map, channel_name,
                                                new_chan_id)]
        chan_id   == s0.channel_map[channel_name]
        is_create == user_nick \notin DOMAIN s0.user_map
        user_id   == IF is_create THEN s0.user_seq ELSE s0.user_map[user_nick]
        s1 == IF is_create
              THEN [s0 EXCEPT
                      !.user_seq = @ + 1,
                      !.users = MapInsert(s0.users, user_id,
                                  User(user_id, join.prefix, {})),
                      !.user_map = MapInsert(s0.user_map, user_nick, user_id)]
              ELSE s0
    IN  IF user_id \notin DOMAIN s1.users THEN Panic(s1)
        ELSE LET s2 == [s1 EXCEPT !.users[user_id].channels = @ \cup {chan_id}]
                 r  == update_channel_by_name(s2, channel_name,
                                              <<"add_users", {user_id}>>)
             IN  IF r.s.panicked \/ r.ret THEN r.s ELSE Panic(r.s)

\* on_other_join
on_other_join(s, join) ==
    LET channel_name == IrcIdentifier(join.chan)
        user_nick    == IrcIdentifier(join.prefix)
    IN  IF channel_name \notin DOMAIN s.channel_map THEN Panic(s)
        ELSE
          LET chan_id   == s.channel_map[channel_name]
              is_create == user_nick \notin DOMAIN s.user_map
              user_id   == IF is_create THEN s.user_seq ELSE s.user_map[user_nick]
              s1 == IF is_create
                    THEN [s EXCEPT
                            !.user_seq = @ + 1,
                            !.users = MapInsert(s.users, user_id,
                                        User(user_id, join.prefix, {})),
                            !.user_map = MapInsert(s.user_map, user_nick, user_id)]
                    ELSE s
          IN  IF user_id \notin DOMAIN s1.users THEN Panic(s1)
              ELSE LET s2 == [s1 EXCEPT !.users[user_id].channels = @ \cup {chan_id}]
                       r  == update_channel_by_name(s2, channel_name,
                                                    <<"add_users", {user_id}>>)
                   IN  IF r.s.panicked \/ r.ret THEN r.s ELSE Panic(r.s)

\* on_self_join taking the size of the channel table as the new id
on_self_join_table_size(s, join) ==
    LET channel_name == IrcIdentifier(join.chan) IN
    IF channel_name \in DOMAIN s.channel_map THEN s
    ELSE LET new_chan_id == Cardinality(DOMAIN s.channels) IN
         [s EXCEPT
            !.channel_seq = @ + 1,
            !.channels = MapInsert(s.channels, new_chan_id,
                           Channel(new_chan_id, join.chan, join.arg, {})),
            !.channel_map = MapInsert(s.channel_map, channel_name, new_chan_id)]

\* on_self_join without the test for an already joined channel
on_self_join_unchecked(s, join) ==
    LET channel_name == IrcIdentifier(join.chan)
        new_chan_id  == s.channel_seq
    IN  [s EXCEPT
           !.channel_seq = @ + 1,
           !.channels = MapInsert(s.channels, new_chan_id,
                          Channel(new_chan_id, join.chan, join.arg, {})),
           !.channel_map = MapInsert(s.channel_map, channel_name, new_chan_id)]

\* on_self_join: the nicks of the bundle are not used
on_self_join(s, join) ==
    LET channel_name == IrcIdentifier(join.chan) IN
    IF channel_name \in DOMAIN s.channel_map THEN s
    ELSE LET new_chan_id == s.channel_seq IN
         [s EXCEPT
            !.channel_seq = @ + 1,
            !.channels = MapInsert(s.channels, new_chan_id,
                           Channel(new_chan_id, join.chan, join.arg, {})),
            !.channel_map = MapInsert(s.channel_map, channel_name, new_chan_id)]

\* validate_state_with_who: read-only; panics on a member without entity
validate_state_with_who(s, who) ==
    LET channel_name == IrcIdentifier(who.chan) IN
    IF channel_name \notin DOMAIN s.channel_map THEN s
    ELSE IF get_channel_by_name_panics(s, channel_name) THEN Panic(s)
    ELSE IF \E u \in s.channels[s.channel_map[channel_name]].users :
                u \notin DOMAIN s.users
         THEN Panic(s)
         ELSE s

\* on_who, first loop: ids of the reported nicks, fresh ids for unknown ones
\* (user_map is not written in this loop)
who_resolve(s, recs) ==
    LET F[i \in 0..Len(recs)] ==
          IF i = 0 THEN [user_seq |-> s.user_seq, user_ids |-> <<>>, new_users |-> <<>>]
          ELSE LET p    == F[i-1]
                   nick == IrcIdentifier(recs[i])
               IN  IF nick \in DOMAIN s.user_map
                   THEN [p EXCEPT !.user_ids = Append(@, s.user_map[nick])]
                   ELSE [user_seq |-> p.user_seq + 1,
                         user_ids |-> Append(p.user_ids, p.user_seq),
                         new_users |-> Append(p.new_users,
                                        User(p.user_seq, recs[i], {}))]
    IN  F[Len(recs)]

\* on_who, second loop: insert_user for every new user, in order
who_insert(s, new_users) ==
    LET F[i \in 0..Len(new_users)] ==
          IF i = 0 THEN s
          ELSE IF F[i-1].panicked THEN F[i-1]
          ELSE insert_user(F[i-1], new_users[i])
    IN  F[Len(new_users)]

\* on_who, third loop: add the channel to every resolved user
who_link(s, user_ids, chan_id) ==
    LET F[i \in 0..Len(user_ids)] ==
          IF i = 0 THEN s
          ELSE LET p == F[i-1] IN
               IF p.panicked THEN p
               ELSE IF user_ids[i] \in DOMAIN p.users
                    THEN [p EXCEPT !.users[user_ids[i]].channels = @ \cup {chan_id}]
                    ELSE IF user_ids[i] # p.self_id THEN Panic(p) ELSE p
    IN  F[Len(user_ids)]

\* on_who without the `!channel.users.is_empty()` early return: every names
\* reply for a tracked channel populates it
on_who_always_populate(s, who) ==
    LET channel_name == IrcIdentifier(who.chan) IN
    IF channel_name \notin DOMAIN s.channel_map THEN s
    ELSE IF get_channel_by_name_panics(s, channel_name) THEN Panic(s)
    ELSE
      LET chan_id == s.channel_map[channel_name]
          res == who_resolve(s, who.arg)
          s1  == [s EXCEPT !.user_seq = res.user_seq]
          s2  == who_insert(s1, res.new_users)
          s3  == IF s2.panicked THEN s2 ELSE who_link(s2, res.user_ids, chan_id)
          ids == { res.user_ids[i] : i \in 1..Len(res.user_ids) }
      IN  IF s3.panicked THEN s3
          ELSE LET r == update_channel_by_name(s3, channel_name, <<"add_users", ids>>)
               IN  IF r.s.panicked \/ r.ret THEN r.s ELSE Panic(r.s)

\* on_who
on_who(s, who) ==
    LET channel_name == IrcIdentifier(who.chan) IN
    IF channel_name \notin DOMAIN s.channel_map THEN s
    ELSE IF get_channel_by_name_panics(s, channel_name) THEN Panic(s)
    ELSE
      LET chan_id == s.channel_map[channel_name] IN
      IF s.channels[chan_id].users # {} THEN validate_state_with_who(s, who)
      ELSE
        LET res == who_resolve(s, who.arg)
            s1  == [s EXCEPT !.user_seq = res.user_seq]
            s2  == who_insert(s1, res.new_users)
            s3  == IF s2.panicked THEN s2 ELSE who_link(s2, res.user_ids, chan_id)
            ids == { res.user_ids[i] : i \in 1..Len(res.user_ids) }
        IN  IF s3.panicked THEN s3
            ELSE LET r == update_channel_by_name(s3, channel_name, <<"add_users", ids>>)
                 IN  IF r.s.panicked \/ r.ret THEN r.s ELSE Panic(r.s)

\* on_topic
on_topic(s, topic) ==
    LET r == update_channel_by_name(s, topic.chan, <<"set_topic", topic.arg>>)
    IN  IF r.s.panicked \/ r.ret THEN r.s ELSE Panic(r.s)

\* on_nick
on_nick(s, nick) ==
    LET r == update_user_by_nick(s, nick.prefix, <<"set_nick", nick.arg>>)
    IN  IF r.s.panicked \/ r.ret THEN r.s ELSE Panic(r.s)

\* on_kick that treats an unknown channel or nick as a hard failure
on_kick_strict(s, kick) ==
    LET channel_name     == IrcIdentifier(kick.chan)
        kicked_user_nick == IrcIdentifier(kick.arg)
    IN  IF channel_name \in DOMAIN s.channel_map
           /\ kicked_user_nick \in DOMAIN s.user_map
        THEN unlink_user_channel(s, s.user_map[kicked_user_nick],
                                 s.channel_map[channel_name])
        ELSE Panic(s)

\* on_kick
on_kick(s, kick) ==
    LET channel_name     == IrcIdentifier(kick.chan)
        kicked_user_nick == IrcIdentifier(kick.arg)
    IN  IF channel_name \in DOMAIN s.channel_map
           /\ kicked_user_nick \in DOMAIN s.user_map
        THEN unlink_user_channel(s, s.user_map[kicked_user_nick],
                                 s.channel_map[channel_name])
        ELSE s

\* set_self_nick: re-keys the index; the self-user entity is not touched
set_self_nick(s, new_nick_str) ==
    LET new_nick == IrcIdentifier(new_nick_str)
        old_nick == IrcIdentifier(s.self_nick)
    IN  IF s.self_nick # <<>>
        THEN IF old_nick \notin DOMAIN s.user_map THEN Panic(s)
             ELSE [s EXCEPT
                     !.user_map = MapInsert(MapRemove(s.user_map, old_nick),
                                            new_nick, s.user_map[old_nick]),
                     !.self_nick = new_nick_str]
        ELSE [s EXCEPT !.self_nick = new_nick_str]

\* initialize_self_nick: the self-user entity is (re)created with no channels
initialize_self_nick(s, new_nick_str) ==
    LET new_nick == IrcIdentifier(new_nick_str)
        s1 == [s EXCEPT
                 !.user_map = MapInsert(s.user_map, new_nick, s.self_id),
                 !.users = MapInsert(s.users, s.self_id,
                             User(s.self_id, new_nick_str, {}))]
    IN  set_self_nick(s1, new_nick_str)

\* clone_frozen without the user table
clone_frozen_without_users(s) == [s EXCEPT !.users = EmptyMap]

\* clone_frozen: the derived Clone copies every field of the State
clone_frozen(s) == s

\* the is_self test of on_message: the prefix nick equals self_nick as strings
is_self(s, msg) == msg.prefix # NoNick /\ msg.prefix = s.self_nick

\* on_message
on_message(s, msg) ==
    CASE msg.kind = "Part" /\ is_self(s, msg)  -> on_self_part(s, msg)
      [] msg.kind = "Part" /\ ~is_self(s, msg) -> on_other_part(s, msg)
      [] msg.kind = "Quit" /\ ~is_self(s, msg) -> on_other_quit(s, msg)
      [] msg.kind = "Join" /\ ~is_self(s, msg) -> on_other_join(s, msg)
      [] msg.kind = "Topic" -> on_topic(s, msg)
      [] msg.kind = "Nick"  -> on_nick(s, msg)
      [] msg.kind = "Kick"  -> on_kick(s, msg)
      [] msg.kind = "Welcome" -> initialize_self_nick(s, msg.arg)
      [] OTHER -> s

MsgKinds == {"Part", "Quit", "Join", "Topic", "Nick", "Kick", "Welcome", "Other"}

\* on_event
on_event(s, event) ==
    CASE event.kind \in MsgKinds -> on_message(s, event)
      [] event.kind = "JoinOk"  -> on_self_join(s, event)
      [] event.kind = "JoinErr" -> s
      [] event.kind = "WhoOk"   -> on_who(s, event)
      [] event.kind = "WhoErr"  -> s
      [] event.kind = "Extension" -> Panic(s)

\* ------------------------------------------------------------------------
\* The session: one action per kind of event, and set_self_nick
\* ------------------------------------------------------------------------
\* lists of reported nicks of a roster bundle
\* the nicks a names reply reports, and the replies of up to MaxWhoLen nicks
WhoNicks == { <<"A">>, <<"b">> }
WhoLists == UNION { [1..n -> WhoNicks] : n \in 0..MaxWhoLen }

InitState(isStrict) ==
    /\ strict = isStrict
    /\ user_seq = New(strict).user_seq
    /\ channel_seq = New(strict).channel_seq
    /\ self_nick = New(strict).self_nick
    /\ self_id = New(strict).self_id
    /\ user_map = New(strict).user_map
    /\ users = New(strict).users
    /\ channel_map = New(strict).channel_map
    /\ channels = New(strict).channels
    /\ generation = New(strict).generation
    /\ panicked = FALSE
    /\ last = Event("New", NoNick, NoChan, NoArg)
    /\ issued_users = {}
    /\ issued_chans = {}
    /\ events = 0
    /\ frozen = <<>>

\* a session: no name is under normalization
InitWith(isStrict) ==
    /\ InitState(isStrict)
    /\ raw = <<>>
    /\ respelled = <<>>
    /\ ident = <<>>

\* the State after an operation on a live (not panicked) State
Becomes(s, event) ==
    /\ ~panicked
    /\ events < MaxEvents
    /\ s.user_seq <= MaxUserSeq
    /\ s.channel_seq <= MaxChanSeq
    /\ strict' = strict
    /\ user_seq' = s.user_seq
    /\ channel_seq' = s.channel_seq
    /\ self_nick' = s.self_nick
    /\ self_id' = s.self_id
    /\ user_map' = s.user_map
    /\ users' = s.users
    /\ channel_map' = s.channel_map
    /\ channels' = s.channels
    /\ generation' = s.generation
    /\ panicked' = s.panicked
    /\ last' = IF s # Cur THEN event ELSE last
    /\ issued_users' = issued_users \cup DOMAIN s.users
    /\ issued_chans' = issued_chans \cup DOMAIN s.channels
    /\ events' = events + 1
    /\ frozen' = frozen
    /\ UNCHANGED name_vars

OnEvent(event) == Becomes(on_event(Cur, event), event)

Part == \E n \in Nicks, c \in Chans : OnEvent(Event("Part", n, c, NoArg))
Quit == \E n \in Nicks : OnEvent(Event("Quit", n, NoChan, NoArg))
Join == \E n \in Nicks, c \in Chans : OnEvent(Event("Join", n, c, NoArg))
Topic == \E c \in Chans, t \in Topics : OnEvent(Event("Topic", NoNick, c, t))
Nick == \E n \in Nicks, m \in Nicks : OnEvent(Event("Nick", n, NoChan, m))
Kick == \E c \in Chans, k \in Nicks : OnEvent(Event("Kick", NoNick, c, k))
Welcome == \E n \in Nicks : OnEvent(Event("Welcome", NoNick, NoChan, n))
OtherMsg == OnEvent(Event("Other", NoNick, NoChan, NoArg))
JoinOk == \E c \in Chans, t \in Topics : OnEvent(Event("JoinOk", NoNick, c, t))
JoinErr == OnEvent(Event("JoinErr", NoNick, NoChan, NoArg))
WhoOk == \E c \in Chans, l \in WhoLists : OnEvent(Event("WhoOk", NoNick, c, l))
WhoErr == OnEvent(Event("WhoErr", NoNick, NoChan, NoArg))
Extension == OnEvent(Event("Extension", NoNick, NoChan, NoArg))
SetSelfNick ==
    \E n \in Nicks :
        Becomes(set_self_nick(Cur, n), Event("SetSelfNick", NoNick, NoChan, n))

Next ==
    \/ Part
    \/ Quit
    \/ Join
    \/ Topic
    \/ Nick
    \/ Kick
    \/ Welcome
    \/ OtherMsg
    \/ JoinOk
    \/ JoinErr
    \/ WhoOk
    \/ WhoErr
    \/ Extension
    \/ SetSelfNick

\* the release build: validate_state_internal_panic is empty
Init == InitWith(FALSE)
Spec == Init /\ [][Next]_vars

\* the cfg(test) build: every validate_state_internal_panic call checks
InitStrict == InitWith(TRUE)
SpecStrict == InitStrict /\ [][Next]_vars

\* clone_frozen(&self): the live State is borrowed immutably, the caller gets
\* the copy
CloneFrozen ==
    /\ ~panicked
    /\ events < MaxEvents
    /\ Len(frozen) < MaxFrozen
    /\ frozen' = Append(frozen, clone_frozen(Cur))
    /\ events' = events + 1
    /\ UNCHANGED << strict, user_seq, channel_seq, self_nick, self_id, user_map,
                    users, channel_map, channels, generation, panicked, last,
                    issued_users, issued_chans >>
    /\ UNCHANGED name_vars

\* a session whose owner also takes snapshots
NextFrozen ==
    \/ Next
    \/ CloneFrozen

SpecFrozen == Init /\ [][NextFrozen]_vars

\* ------------------------------------------------------------------------
\* The normalizer on its own
\* ------------------------------------------------------------------------
\* pairs of characters the protocol takes for the same character
CaseEquivalent ==
    { <<"a", "A">>, <<"A", "a">>, <<"{", "[">>, <<"[", "{">> }

InitNormalize ==
    /\ InitState(FALSE)
    /\ raw \in RawNames
    /\ respelled = raw
    /\ ident = <<>>

\* another spelling: other characters in front of the first '#'
Reprefix ==
    /\ ident = <<>>
    /\ \E i \in 1..Len(respelled), p \in RawNames :
          /\ respelled[i] = "#"
          /\ \A j \in 1..(i-1) : respelled[j] # "#"
          /\ \A j \in 1..Len(p) : p[j] # "#"
          /\ Len(p) + Len(respelled) - (i - 1) <= MaxNameLen
          /\ respelled' = p \o SubSeq(respelled, i, Len(respelled))
    /\ UNCHANGED << state_vars, raw, ident >>

\* another spelling: one character in its other case
Recase ==
    /\ ident = <<>>
    /\ \E i \in 1..Len(respelled), pair \in CaseEquivalent :
          /\ respelled[i] = pair[1]
          /\ respelled' = [respelled EXCEPT ![i] = pair[2]]
    /\ UNCHANGED << state_vars, raw, ident >>

\* IrcIdentifier::from_str(raw)
FromStr ==
    /\ Len(ident) = 0
    /\ ident' = << IrcIdentifier(raw) >>
    /\ UNCHANGED << state_vars, raw, respelled >>

\* IrcIdentifier::from_str(id.as_slice()) of the identifier just made
FromStrAgain ==
    /\ Len(ident) = 1
    /\ ident' = Append(ident, IrcIdentifier(ident[1]))
    /\ UNCHANGED << state_vars, raw, respelled >>

\* IrcIdentifier::from_str of the other spelling
FromStrRespelled ==
    /\ Len(ident) = 2
    /\ ident' = Append(ident, IrcIdentifier(respelled))
    /\ UNCHANGED << state_vars, raw, respelled >>

NextNormalize ==
    \/ Reprefix
    \/ Recase
    \/ FromStr
    \/ FromStrAgain
    \/ FromStrRespelled

SpecNormalize == InitNormalize /\ [][NextNormalize]_vars

\* ------------------------------------------------------------------------
\* Properties
\* ------------------------------------------------------------------------
\* C1: after every operation that completed without a hard failure, user u
\* is a member of channel c iff c is in u's channel set, for every user and
\* channel in the tables.
SymmetricMembership ==
    ~panicked =>
        \A u \in DOMAIN users : \A c \in DOMAIN channels :
            u \in channels[c].users <=> c \in users[u].channels

\* C2: after every completed operation, every entry of the user index names
\* an existing User whose nick normalizes to the entry's key, and every entry
\* of the channel index names an existing Channel whose name normalizes to
\* the entry's key.
IndexAgreement ==
    ~panicked =>
        /\ \A name \in DOMAIN user_map :
              /\ user_map[name] \in DOMAIN users
              /\ IrcIdentifier(users[user_map[name]].nick) = name
        /\ \A name \in DOMAIN channel_map :
              /\ channel_map[name] \in DOMAIN channels
              /\ IrcIdentifier(channels[channel_map[name]].name) = name

\* C3: after every completed operation, every user in the table other than
\* the self-user has at least one channel.
NonSelfUserHasChannel ==
    ~panicked =>
        \A u \in DOMAIN users : u # self_id => users[u].channels # {}

\* C4: after every completed operation, every channel in the table has at
\* least one member.
ChannelHasMember ==
    ~panicked =>
        \A c \in DOMAIN channels : channels[c].users # {}

\* C5: user_seq and channel_seq never decrease, and an id that enters the
\* user (channel) table in a step was never in that table before in the
\* session, so a removed user whose nick re-appears and a parted channel
\* that is re-joined get new ids.
IdsNeverReused ==
    [][ /\ user_seq' >= user_seq
        /\ channel_seq' >= channel_seq
        /\ \A u \in (DOMAIN users') \ (DOMAIN users) : u \notin issued_users
        /\ \A c \in (DOMAIN channels') \ (DOMAIN channels) : c \notin issued_chans
      ]_vars

\* a user was removed, and the join just applied created a user for its nick
\* again, under another id
RemovedNickRejoined ==
    /\ ~panicked
    /\ last.kind = "Join"
    /\ IrcIdentifier(last.prefix) \in DOMAIN user_map
    /\ \E old \in issued_users \ DOMAIN users :
          /\ old # self_id
          /\ user_map[IrcIdentifier(last.prefix)] > old
          /\ user_seq = user_map[IrcIdentifier(last.prefix)] + 1
    /\ Cardinality(issued_users) = 2

\* C6: once a welcome message has created the self-user, users[self_id]
\* exists in every later state, also in the State a hard failure leaves.
SelfUserNeverRemoved ==
    self_id \in issued_users => self_id \in DOMAIN users

\* a Quit whose nick resolves to the self-user was applied: it ended in a
\* hard failure and the self-user is still there
QuitNamedSelf ==
    /\ last.kind = "Quit"
    /\ IrcIdentifier(last.prefix) \in DOMAIN user_map
    /\ user_map[IrcIdentifier(last.prefix)] = self_id
    /\ self_id \in DOMAIN users
    /\ panicked

\* C7: a Kick naming a known channel and the self-user's nick, where that
\* channel is the self-user's only channel, completes normally, removes the
\* edge in both directions and leaves the self-user in the table with an
\* empty channel set.
KickSelfCompletes ==
    \A c \in Chans, k \in Nicks :
        LET cn == IrcIdentifier(c)
            kn == IrcIdentifier(k)
        IN  ( /\ ~panicked
              /\ cn \in DOMAIN channel_map
              /\ kn \in DOMAIN user_map
              /\ user_map[kn] = self_id
              /\ self_id \in DOMAIN users
              /\ users[self_id].channels = {channel_map[cn]} )
            => LET r == on_event(Cur, Event("Kick", NoNick, c, k)) IN
               /\ ~r.panicked
               /\ self_id \in DOMAIN r.users
               /\ r.users[self_id].channels = {}
               /\ channel_map[cn] \in DOMAIN r.channels
                     => self_id \notin r.channels[channel_map[cn]].users

\* C8: a Part whose originating nick equals the own nick up to IRC case
\* folding is handled by the self-part handler.
CaseFoldedSelfDispatch ==
    \A n \in Nicks, c \in Chans :
        ( /\ ~panicked
          /\ self_nick # <<>>
          /\ IrcIdentifier(n) = IrcIdentifier(self_nick) )
        => on_message(Cur, Event("Part", n, c, NoArg))
              = on_self_part(Cur, Event("Part", n, c, NoArg))

\* C9: a successful self-join bundle for a channel whose normalized name is
\* already tracked leaves the whole State unchanged, whatever topic or
\* spelling it carries.
SelfJoinIdempotent ==
    \A c \in Chans, t \in Topics :
        ( /\ ~panicked
          /\ IrcIdentifier(c) \in DOMAIN channel_map )
        => LET again == on_event(Cur, Event("JoinOk", NoNick, c, t)) IN
           /\ ~again.panicked
           /\ StateEq(again, Cur)

\* a self-join bundle created a channel, and a bundle for the same channel
\* in another spelling and with another topic changes nothing
RejoinedOtherSpelling ==
    /\ ~panicked
    /\ last.kind = "JoinOk"
    /\ channel_seq = 1
    /\ \E c \in Chans, t \in Topics :
          /\ IrcIdentifier(c) = IrcIdentifier(last.chan)
          /\ c # last.chan
          /\ t # last.arg
          /\ channels[channel_map[IrcIdentifier(c)]].name = last.chan
          /\ channels[channel_map[IrcIdentifier(c)]].topic = last.arg
          /\ StateEq(on_event(Cur, Event("JoinOk", NoNick, c, t)), Cur)

\* C10: after a completed Join of a non-self nick into a known channel,
\* applying the same Join again completes and changes nothing: the nick
\* resolves to one user id, the edge is there once in each direction, and
\* user_seq is not advanced again.
JoinTwiceIsJoinOnce ==
    ( /\ ~panicked
      /\ last.kind = "Join"
      /\ last.prefix # self_nick )
    => LET twice == on_event(Cur, last)
           uid   == twice.user_map[IrcIdentifier(last.prefix)]
           chid  == twice.channel_map[IrcIdentifier(last.chan)]
       IN  /\ ~twice.panicked
           /\ StateEq(twice, Cur)
           /\ twice.user_seq = user_seq
           /\ chid \in twice.users[uid].channels
           /\ uid \in twice.channels[chid].users

\* a Join that created a user and linked it into the channel was applied
JoinedNewUser ==
    /\ ~panicked
    /\ last.kind = "Join"
    /\ last.prefix # self_nick
    /\ user_seq = 2
    /\ user_map[IrcIdentifier(last.prefix)] = 1
    /\ users[1].channels = {channel_map[IrcIdentifier(last.chan)]}
    /\ channels[channel_map[IrcIdentifier(last.chan)]].users = {1}

\* C11: a names reply for a known channel without tracked members completes
\* for every list of reported nicks, repeated nicks included; afterwards the
\* channel's members are exactly the ids of the reported nicks, each of them
\* has the channel in its channel set, known nicks keep their id, and there
\* is one new User per distinct unknown normalized nick.
RosterInitialPopulation ==
    \A c \in Chans, l \in WhoLists :
        LET cn == IrcIdentifier(c) IN
        ( /\ ~panicked
          /\ cn \in DOMAIN channel_map
          /\ channel_map[cn] \in DOMAIN channels
          /\ channels[channel_map[cn]].users = {} )
        => LET r     == on_event(Cur, Event("WhoOk", NoNick, c, l))
               cid   == channel_map[cn]
               nicks == { IrcIdentifier(l[i]) : i \in 1..Len(l) }
           IN  /\ ~r.panicked
               /\ nicks \subseteq DOMAIN r.user_map
               /\ \A n \in nicks : r.user_map[n] \in DOMAIN r.users
               /\ r.channels[cid].users = { r.user_map[n] : n \in nicks }
               /\ \A n \in nicks : cid \in r.users[r.user_map[n]].channels
               /\ \A n \in nicks \cap DOMAIN user_map : r.user_map[n] = user_map[n]
               /\ Cardinality(DOMAIN r.users)
                     = Cardinality(DOMAIN users)
                         + Cardinality(nicks \ DOMAIN user_map)

\* C12: a names reply for a channel that is not tracked, or for a tracked
\* channel that has a member, completes and leaves the whole State unchanged,
\* whichever nicks it reports.  (Stated for the states of a session in which
\* a further operation is applied.)
RosterReadOnly ==
    (~panicked /\ events < MaxEvents) =>
      \A c \in Chans :
        LET cn == IrcIdentifier(c) IN
        ( \/ cn \notin DOMAIN channel_map
          \/ /\ channel_map[cn] \in DOMAIN channels
             /\ channels[channel_map[cn]].users # {} )
        => \A l \in WhoLists :
             LET r == on_event(Cur, Event("WhoOk", NoNick, c, l)) IN
             /\ ~r.panicked
             /\ StateEq(r, Cur)
             /\ r.self_id = self_id

\* a names reply populated a channel, and a further reply for it that
\* reports a nick nobody has changes nothing
RosterForPopulatedChannel ==
    /\ ~panicked
    /\ last.kind = "WhoOk"
    /\ IrcIdentifier(last.chan) \in DOMAIN channel_map
    /\ channels[channel_map[IrcIdentifier(last.chan)]].users # {}
    /\ \E l \in WhoLists :
          /\ \E i \in 1..Len(l) : IrcIdentifier(l[i]) \notin DOMAIN user_map
          /\ StateEq(on_event(Cur, Event("WhoOk", NoNick, last.chan, l)), Cur)

\* C13: a Part of another user, or a Kick, whose channel name or whose
\* (parting, kicked) nick does not resolve to a tracked entity completes
\* without a failure and leaves the whole State as it was.  (Stated for the
\* states of a session in which a further operation is applied.)
SoftFailureUnchanged ==
    \A n \in Nicks, c \in Chans :
        ( /\ ~panicked
          /\ events < MaxEvents
          /\ \/ IrcIdentifier(c) \notin DOMAIN channel_map
             \/ IrcIdentifier(n) \notin DOMAIN user_map )
        => LET parted == on_event(Cur, Event("Part", n, c, NoArg))
               kicked == on_event(Cur, Event("Kick", NoNick, c, n))
           IN  /\ n # self_nick
                    => ( /\ ~parted.panicked
                         /\ StateEq(parted, Cur)
                         /\ parted.self_id = self_id )
               /\ ~kicked.panicked
               /\ StateEq(kicked, Cur)
               /\ kicked.self_id = self_id

\* a channel has a member; a Part and a Kick in that channel for a nick
\* nobody has, and a Part and a Kick of that member in a channel that is not
\* tracked, change nothing
StaleReferenceIgnored ==
    /\ ~panicked
    /\ \E n, m \in Nicks, c, d \in Chans :
          /\ n # self_nick
          /\ m # self_nick
          /\ IrcIdentifier(c) \in DOMAIN channel_map
          /\ IrcIdentifier(d) \notin DOMAIN channel_map
          /\ IrcIdentifier(n) \notin DOMAIN user_map
          /\ IrcIdentifier(m) \in DOMAIN user_map
          /\ user_map[IrcIdentifier(m)] \in channels[channel_map[IrcIdentifier(c)]].users
          /\ StateEq(on_event(Cur, Event("Part", n, c, NoArg)), Cur)
          /\ StateEq(on_event(Cur, Event("Kick", NoNick, c, n)), Cur)
          /\ StateEq(on_event(Cur, Event("Part", m, d, NoArg)), Cur)
          /\ StateEq(on_event(Cur, Event("Kick", NoNick, d, m)), Cur)

\* C14: a Join of another user into an untracked channel, a Quit or a Nick
\* change naming an untracked nick, a Topic or a self-Part naming an
\* untracked channel, and an Extension event each end in a hard failure, and
\* the State at the point of failure is the State before the event (no User
\* created, no counter advanced).
HardFailureOnUnknown ==
    LET Fails(event) ==
          LET r == on_event(Cur, event) IN
          /\ r.panicked
          /\ StateEq(r, Cur)
          /\ r.self_id = self_id
    IN  ~panicked =>
          /\ \A n \in Nicks, c \in Chans :
                (n # self_nick /\ IrcIdentifier(c) \notin DOMAIN channel_map)
                => Fails(Event("Join", n, c, NoArg))
          /\ \A n \in Nicks :
                IrcIdentifier(n) \notin DOMAIN user_map
                => /\ Fails(Event("Quit", n, NoChan, NoArg))
                   /\ \A m \in Nicks : Fails(Event("Nick", n, NoChan, m))
          /\ \A c \in Chans :
                IrcIdentifier(c) \notin DOMAIN channel_map
                => /\ \A t \in Topics : Fails(Event("Topic", NoNick, c, t))
                   /\ self_nick # <<>> => Fails(Event("Part", self_nick, c, NoArg))
          /\ Fails(Event("Extension", NoNick, NoChan, NoArg))

SetSelfNickIsNickChange ==
    \A n \in Nicks :
        ( /\ ~panicked
          /\ self_nick # <<>>
          /\ self_id \in DOMAIN users
          /\ IrcIdentifier(self_nick) \in DOMAIN user_map
          /\ user_map[IrcIdentifier(self_nick)] = self_id )
        => LET r == set_self_nick(Cur, n)
               q == on_event(Cur, Event("Nick", self_nick, NoChan, n))
           IN  /\ ~r.panicked
               /\ r.self_nick = n
               /\ IrcIdentifier(n) \in DOMAIN r.user_map
               /\ r.user_map[IrcIdentifier(n)] = self_id
               /\ IrcIdentifier(n) # IrcIdentifier(self_nick)
                    => IrcIdentifier(self_nick) \notin DOMAIN r.user_map
               /\ r.users[self_id].nick = n
               /\ r.users = q.users
               /\ r.user_map = q.user_map

\* C17: taking a snapshot leaves the live State as it is, the snapshot
\* equals the live State of that moment, and no later step (an event, a
\* set_self_nick, a further snapshot) changes a snapshot already taken.
FrozenSnapshotIndependent ==
    [][ /\ Len(frozen') >= Len(frozen)
        /\ \A i \in 1..Len(frozen) : frozen'[i] = frozen[i]
        /\ Len(frozen') > Len(frozen)
             => /\ Len(frozen') = Len(frozen) + 1
                /\ StateEq(frozen'[Len(frozen')], Cur)
                /\ frozen'[Len(frozen')].self_id = self_id
                /\ Cur' = Cur
      ]_vars

\* two snapshots were taken with an operation in between, the live State
\* went on after the second, and each snapshot still holds what it captured:
\* the first the new State, the second a State that differs from the live one
TwoSnapshotsThenEvent ==
    /\ Len(frozen) = 2
    /\ StateEq(frozen[1], New(strict))
    /\ ~StateEq(frozen[2], frozen[1])
    /\ ~StateEq(frozen[2], Cur)
    /\ frozen[2].channel_seq = 1
    /\ channel_seq = 1

\* C18: normalizing an identifier again gives the same identifier, and a
\* raw name and a spelling of it that differs only in the characters before
\* the first '#' or only in IRC letter case normalize to the same identifier.
NormalizeIdempotent ==
    /\ Len(ident) >= 2 => ident[2] = ident[1]
    /\ Len(ident) >= 3 => ident[3] = ident[1]

\* a name with characters in front of its '#' was normalized, normalized
\* again, and normalized in a spelling with another prefix and another case
NormalizedRespelledName ==
    /\ Len(ident) = 3
    /\ ident[1] # raw
    /\ \E i \in 2..Len(raw) : raw[i] = "#"
    /\ Len(respelled) # Len(raw)
    /\ raw[Len(raw)] # "#"
    /\ respelled[Len(respelled)] # raw[Len(raw)]

\* C19: when a Part of another user or a Kick removes the edge between a
\* user u other than the self-user and a channel c whose only member is u,
\* the channel and its index entry are deleted, whether or not the user
\* cascade fired; when c is also u's only channel, u and its index entry
\* are deleted as well.
UnlinkBothCascades ==
    \A n \in Nicks, c \in Chans :
        LET nn == IrcIdentifier(n)
            cn == IrcIdentifier(c)
        IN  ( /\ ~panicked
              /\ nn \in DOMAIN user_map
              /\ cn \in DOMAIN channel_map
              /\ user_map[nn] # self_id
              /\ user_map[nn] \in DOMAIN users
              /\ channel_map[cn] \in DOMAIN channels
              /\ channel_map[cn] \in users[user_map[nn]].channels
              /\ channels[channel_map[cn]].users = {user_map[nn]} )
            => LET uid    == user_map[nn]
                   chid   == channel_map[cn]
                   parted == on_event(Cur, Event("Part", n, c, NoArg))
                   kicked == on_event(Cur, Event("Kick", NoNick, c, n))
                   Both(r) ==
                     /\ ~r.panicked
                     /\ chid \notin DOMAIN r.channels
                     /\ cn \notin DOMAIN r.channel_map
                     /\ users[uid].channels = {chid}
                          => /\ uid \notin DOMAIN r.users
                             /\ nn \notin DOMAIN r.user_map
               IN  /\ n # self_nick => Both(parted)
                   /\ Both(kicked)

\* C20: after the self-user parted a tracked channel c, the name and the id
\* of c resolve to nothing, no user's channel set has the id, the self-user
\* is still in the table, and every other channel and every other entry of
\* the channel index is as before.
SelfPartRemovesOnlyChannel ==
    \A c \in Chans :
        LET cn == IrcIdentifier(c) IN
        ( /\ ~panicked
          /\ self_nick # <<>>
          /\ self_id \in DOMAIN users
          /\ cn \in DOMAIN channel_map
          /\ channel_map[cn] \in DOMAIN channels )
        => LET r    == on_event(Cur, Event("Part", self_nick, c, NoArg))
               chid == channel_map[cn]
           IN  /\ ~r.panicked
               /\ cn \notin DOMAIN r.channel_map
               /\ chid \notin DOMAIN r.channels
               /\ \A u \in DOMAIN r.users : chid \notin r.users[u].channels
               /\ self_id \in DOMAIN r.users
               /\ DOMAIN r.channels = DOMAIN channels \ {chid}
               /\ \A d \in DOMAIN r.channels : r.channels[d] = channels[d]
               /\ DOMAIN r.channel_map = DOMAIN channel_map \ {cn}
               /\ \A k \in DOMAIN r.channel_map : r.channel_map[k] = channel_map[k]

\* the self-user parted one of two tracked channels: the other one is still
\* there with its index entry
SelfPartedOneOfTwo ==
    /\ ~panicked
    /\ last.kind = "Part"
    /\ last.prefix = self_nick
    /\ self_id \in DOMAIN users
    /\ channel_seq = 2
    /\ IrcIdentifier(last.chan) \notin DOMAIN channel_map
    /\ Cardinality(DOMAIN channels) = 1
    /\ Cardinality(DOMAIN channel_map) = 1

\* C21: after a Quit from a tracked nick that is not the self-user's, the
\* user's id is in neither the user table, the user index nor any channel's
\* member set, every other user and every other index entry is as before,
\* and no counter advanced.
QuitRemovesUserEverywhere ==
    \A n \in Nicks :
        LET nn == IrcIdentifier(n) IN
        ( /\ ~panicked
          /\ nn \in DOMAIN user_map
          /\ user_map[nn] \in DOMAIN users
          /\ user_map[nn] # self_id )
        => LET r   == on_event(Cur, Event("Quit", n, NoChan, NoArg))
               uid == user_map[nn]
           IN  /\ ~r.panicked
               /\ uid \notin DOMAIN r.users
               /\ \A k \in DOMAIN r.user_map : r.user_map[k] # uid
               /\ \A c \in DOMAIN r.channels : uid \notin r.channels[c].users
               /\ DOMAIN r.users = DOMAIN users \ {uid}
               /\ \A u \in DOMAIN r.users : r.users[u] = users[u]
               /\ DOMAIN r.user_map = DOMAIN user_map \ {nn}
               /\ \A k \in DOMAIN r.user_map : r.user_map[k] = user_map[k]
               /\ r.user_seq = user_seq
               /\ r.channel_seq = channel_seq

\* C22: a ChannelId that is not in the channel table before a step is in it
\* after the step only if the step was a successful join bundle for a name
\* that was not indexed; the new channel then has that name and is indexed
\* under it.
ChannelsOnlyBySelfJoin ==
    [][ \A c \in (DOMAIN channels') \ (DOMAIN channels) :
          /\ last'.kind = "JoinOk"
          /\ IrcIdentifier(last'.chan) \notin DOMAIN channel_map
          /\ channels'[c].name = last'.chan
          /\ IrcIdentifier(last'.chan) \in DOMAIN channel_map'
          /\ channel_map'[IrcIdentifier(last'.chan)] = c
      ]_vars

SecondChannelCreatedByJoinBundle ==
    /\ ~panicked
    /\ last.kind = "JoinOk"
    /\ channel_seq = 2
    /\ Cardinality(DOMAIN channels) = 2
    /\ IrcIdentifier(last.chan) \in DOMAIN channel_map
    /\ channel_map[IrcIdentifier(last.chan)] = 1
    /\ channels[1].name = last.chan

\* C23: a call of on_event or set_self_nick that ends in a hard failure
\* leaves the State as it was before the call: the indexes, the entity
\* tables, the counters, the generation and the stored own nick are those of
\* the state before the step.
HardFailureAtomic ==
    [][ panicked' =>
          /\ user_seq' = user_seq
          /\ channel_seq' = channel_seq
          /\ self_nick' = self_nick
          /\ self_id' = self_id
          /\ user_map' = user_map
          /\ users' = users
          /\ channel_map' = channel_map
          /\ channels' = channels
          /\ generation' = generation
      ]_vars

\* C24: once the self-user is in the user table, after every completed
\* operation the normalized stored own nick is a key of the user index and
\* maps to self_id.
SelfNickFollowsSelfUser ==
    (~panicked /\ self_id \in DOMAIN users)
    => /\ IrcIdentifier(self_nick) \in DOMAIN user_map
       /\ user_map[IrcIdentifier(self_nick)] = self_id

\* C25: after every completed operation every User entity of the table is
\* the target of exactly one entry of the user index, and every entry of the
\* index targets an entity of the table.
UserIndexBijection ==
    ~panicked
    => /\ \A u \in DOMAIN users :
            Cardinality({k \in DOMAIN user_map : user_map[k] = u}) = 1
       /\ \A k \in DOMAIN user_map : user_map[k] \in DOMAIN users

====
